---- MODULE Spec2Model ----
(***************************************************************************)
(* Model of the authenticated HTTP client of expense-tracker-client:       *)
(* the axios response interceptor of src/utils/api.ts (second revision in  *)
(* the file, lines 389-579) that coordinates the token refresh, together   *)
(* with authApi.resetAuthState / login / register; the AuthProvider of      *)
(* src/contexts/AuthContext.tsx (first revision, lines 1-176); and          *)
(* handleApiError of src/utils/errorHandler.ts.                            *)
(*                                                                         *)
(* JavaScript runs one callback at a time, so every action below is one    *)
(* task of the event loop together with the promise continuations it       *)
(* makes runnable: a caller issuing a request, a response arriving for a   *)
(* request, the response of the interceptor's own POST /auth/refresh.      *)
(***************************************************************************)
EXTENDS Integers, Sequences, FiniteSets, TLC

\* ------------------------------------------------------------------ bounds
NumReq == 3
MaxRefresh == 2

Reqs == 1..NumReq
Attempts == 1..MaxRefresh

\* ------------------------------------------------------------- vocabulary
\* URL families of a request config: the interceptor tells only
\* "/auth/refresh" apart; "credentials" is POST /auth/login or /auth/register.
Kinds == {"res", "refresh", "credentials"}
\* Outcome of a request on the wire: a 2xx, a 401, or any other failure.
Codes == {"200", "401", "500"}
\* Outcome of the interceptor's own refresh call: 2xx with success = true,
\* 2xx whose body does not read as a success (the try block throws), a 401,
\* or any other failure.
RefreshCodes == {"ok", "okfalse", "401", "500"}

VARIABLES
    isRefreshing,       \* api.ts:390
    isAuthInvalid,      \* api.ts:391
    failedQueue,        \* api.ts:392  sequence of request ids (their continuations)
    windowAuthInvalid,  \* (window as any).authInvalid
    storedUser,         \* localStorage / sessionStorage hold a "user" entry
    req,                \* per request: config (kind, _retry) and the caller's promise
    refreshCalls,       \* the interceptor's POST /auth/refresh calls, in issue order
    last,               \* the task that ran last and the "auth:logout" events
                        \* it dispatched (observation only)
    session,            \* AuthContext.tsx:73  state of the auth reducer
    mounted,            \* AuthContext.tsx:140 the provider's effect is in place
    authOps,            \* the provider's checkAuth / login / register / logout
    handling            \* errorHandler.ts:34  a call of handleApiError: its
                        \* arguments and the notifications it showed

\* The variables of the AuthProvider.
sessionVars == <<session, mounted, authOps>>

vars == <<isRefreshing, isAuthInvalid, failedQueue, windowAuthInvalid,
          storedUser, req, refreshCalls, last, session, mounted, authOps,
          handling>>

Task(op, id, code, logouts) ==
    [op |-> op, id |-> id, code |-> code, logouts |-> logouts]

\* A request: its config (kind of url, _retry), the state of the promise its
\* caller holds (st, result), and three observations: how many times it went
\* on the wire, whether isAuthInvalid was set when the caller made it, and
\* the refresh calls that were running when it started to wait.
NewReq == [kind |-> "none", st |-> "new", retry |-> FALSE, sent |-> 0,
           result |-> "none", whileInvalid |-> FALSE, waitsFor |-> {}]

\* AuthContext.tsx:22-26
initialState == [user |-> "null", isLoading |-> TRUE, isAuthenticated |-> FALSE]

\* The operations the provider hands out (AuthContext.tsx:51-56).
AuthOpNames == {"checkAuth", "login", "register", "logout"}

\* An error as handleApiError reads it: error.code, whether error.response is
\* there, error.response.status and error.response.data?.message.
ApiError(code, hasResponse, status, message) ==
    [code |-> code, hasResponse |-> hasResponse, status |-> status,
     message |-> message]

\* A call of handleApiError(error, operation) and, once it ran, the toasts it
\* showed in order.
Call(error, operation) ==
    [error |-> error, operation |-> operation, ran |-> FALSE, toasts |-> <<>>]

\* No call of handleApiError is under way.
NoCall == Call(ApiError("undefined", FALSE, 0, "undefined"), "undefined")

Init ==
    /\ handling = NoCall
    /\ session = initialState
    /\ mounted = FALSE
    /\ authOps = [o \in AuthOpNames |-> "idle"]
    /\ isRefreshing = FALSE
    /\ isAuthInvalid = FALSE
    /\ failedQueue = <<>>
    /\ windowAuthInvalid = FALSE
    /\ storedUser = TRUE
    /\ req = [r \in Reqs |-> NewReq]
    /\ refreshCalls = <<>>
    /\ last = Task("init", 0, "none", 0)

\* ---------------------------------------------------------------- helpers
InQueue(fq, r) == \E i \in 1..Len(fq) : fq[i] = r

\* The refresh calls of the interceptor that have not settled yet.
InFlightRefreshes ==
    {a \in 1..Len(refreshCalls) : refreshCalls[a].st = "inflight"}

\* api(originalRequest): the request goes on the wire (again).
Send(q) == [q EXCEPT !.st = "inflight", !.sent = @ + 1]

\* The caller's promise settles.  Nothing refers to the request's config
\* after that, so only the outcome is kept.
Resolve(q) == [NewReq EXCEPT !.st = "resolved", !.result = "ok",
                            !.whileInvalid = q.whileInvalid]
Reject(q, e) == [NewReq EXCEPT !.st = "rejected", !.result = e,
                              !.whileInvalid = q.whileInvalid]

\* A released continuation hands the token to the caller instead of sending
\* the request again.
ContinuationNoResend(q, error) ==
    IF error # "none" THEN Reject(q, error) ELSE Resolve(q)

\* The continuation a queued request registered (api.ts:462-470): resolved,
\* it re-sends the request; rejected, it rejects the caller with the error.
Continuation(q, error) ==
    IF error # "none" THEN Reject(q, error) ELSE Send(q)

\* Only the continuation at the head of the queue is released.
ProcessQueueFirstOnly(rq, fq, error) ==
    [r \in Reqs |-> IF Len(fq) > 0 /\ fq[1] = r
                    THEN Continuation(rq[r], error)
                    ELSE rq[r]]

\* processQueue(error, token), api.ts:398-408: every queued continuation
\* gets the same outcome; the queue is emptied by the callers' next state.
ProcessQueue(rq, fq, error) ==
    [r \in Reqs |-> IF InQueue(fq, r) THEN Continuation(rq[r], error)
                    ELSE rq[r]]

\* ---------------------------------------------- guards of the error handler
\* The terminal flag is never consulted.
AuthInvalidGuardOff == FALSE

\* api.ts:432
AuthInvalidGuard == isAuthInvalid

\* The _retry mark is not looked at.
RetryGuardNoFlag(r, code) == code = "401"

\* The _retry mark is read the wrong way round.
RetryGuardInverted(r, code) == code = "401" /\ req[r].retry

\* api.ts:439
RetryGuard(r, code) == code = "401" /\ ~req[r].retry

\* The login and register endpoints are kept out of the refresh like the
\* refresh endpoint.
IsAuthUrl(r) == req[r].kind \in {"refresh", "credentials"}

\* The refresh endpoint is not told apart from the other urls.
IsRefreshUrlOff(r) == FALSE

\* api.ts:441
IsRefreshUrl(r) == req[r].kind = "refresh"

\* The queue branch never taken: every 401 starts a refresh of its own.
QueueGuardOff == FALSE

\* api.ts:460
QueueGuard == isRefreshing

\* The error with which the interceptor's own refresh call rejects: that call
\* goes through the same error handler with a fresh config whose url is
\* "/auth/refresh" (api.ts:432-458, 517).
RefreshCallError(code) ==
    IF AuthInvalidGuard THEN "authFailed"
    ELSE IF code = "401" THEN "refreshInvalid"
    ELSE "raw" \o code

\* Whether that pass through the handler ran the refresh-endpoint branch
\* (api.ts:441-458), which dispatches "auth:logout" itself.
RefreshCallBranch(code) == ~AuthInvalidGuard /\ code = "401"

\* ------------------------------------------------------------ the callers
\* The request interceptor (api.ts:411-421) returns the config unchanged, so
\* a request goes on the wire whatever the coordinator's flags are.
RequestInterceptor(q) == Send(q)

\* Request ids are handed out in order.
CanIssue(r) ==
    /\ req[r].st = "new"
    /\ \A p \in Reqs : p < r => req[p].st # "new"

\* A reset that leaves the queue as it is.
ResetFlagsKeepsQueue ==
    /\ isAuthInvalid' = FALSE
    /\ isRefreshing' = FALSE
    /\ failedQueue' = failedQueue
    /\ windowAuthInvalid' = FALSE

\* A reset that leaves the flag on window as it is.
ResetFlagsKeepsWindowFlag ==
    /\ isAuthInvalid' = FALSE
    /\ isRefreshing' = FALSE
    /\ failedQueue' = <<>>
    /\ windowAuthInvalid' = windowAuthInvalid

\* The body of authApi.resetAuthState, api.ts:525-528.
ResetFlags ==
    /\ isAuthInvalid' = FALSE
    /\ isRefreshing' = FALSE
    /\ failedQueue' = <<>>
    /\ windowAuthInvalid' = FALSE

\* A resource operation that clears the coordinator before its call, as
\* login and register do.
IssueRequestResets(r, k) ==
    /\ CanIssue(r)
    /\ ResetFlags
    /\ req' = [req EXCEPT ![r] = RequestInterceptor(
                    [@ EXCEPT !.kind = k, !.whileInvalid = isAuthInvalid'])]
    /\ last' = Task("Issue", r, k, 0)
    /\ UNCHANGED <<storedUser, refreshCalls>>

\* A caller issues a request through the shared client: a resource
\* operation, authApi.me, authApi.logout (k = "res") or authApi.refresh
\* (k = "refresh"), api.ts:551-579 and below.
IssueRequest(r, k) ==
    /\ CanIssue(r)
    /\ req' = [req EXCEPT ![r] = RequestInterceptor(
                    [@ EXCEPT !.kind = k, !.whileInvalid = isAuthInvalid])]
    /\ last' = Task("Issue", r, k, 0)
    /\ UNCHANGED <<isRefreshing, isAuthInvalid, failedQueue, windowAuthInvalid,
                   storedUser, refreshCalls>>

\* authApi.resetAuthState called on its own (AuthContext.tsx:103).
ResetAuthState ==
    /\ ResetFlags
    /\ last' = Task("Reset", 0, "none", 0)
    /\ UNCHANGED <<storedUser, req, refreshCalls>>

\* login / register that go straight to their network call.
NoResetBeforeSend ==
    UNCHANGED <<isAuthInvalid, isRefreshing, failedQueue, windowAuthInvalid>>

\* The first statement of authApi.register and authApi.login
\* (api.ts:536, 546).
ResetBeforeSend == ResetFlags

\* authApi.login, api.ts:545-549 (up to the await).
Login(r) ==
    /\ CanIssue(r)
    /\ ResetBeforeSend
    /\ req' = [req EXCEPT ![r] = RequestInterceptor(
                    [@ EXCEPT !.kind = "credentials",
                              !.whileInvalid = isAuthInvalid'])]
    /\ last' = Task("Issue", r, "login", 0)
    /\ UNCHANGED <<storedUser, refreshCalls>>

\* authApi.register, api.ts:531-543 (up to the await).
Register(r) ==
    /\ CanIssue(r)
    /\ ResetBeforeSend
    /\ req' = [req EXCEPT ![r] = RequestInterceptor(
                    [@ EXCEPT !.kind = "credentials",
                              !.whileInvalid = isAuthInvalid'])]
    /\ last' = Task("Issue", r, "register", 0)
    /\ UNCHANGED <<storedUser, refreshCalls>>

\* ------------------------------------- the response interceptor, api.ts:424
\* Success handler, api.ts:425-427: the response is returned as it is.
HandleSuccess(r) ==
    /\ req' = [req EXCEPT ![r] = Resolve(@)]
    /\ last' = Task("Respond", r, "200", 0)
    /\ UNCHANGED <<isRefreshing, isAuthInvalid, failedQueue, windowAuthInvalid,
                   storedUser, refreshCalls>>

\* The terminal branch hands the original error on.
RejectInvalidRaw(r, code) ==
    /\ req' = [req EXCEPT ![r] = Reject(@, "raw" \o code)]
    /\ last' = Task("Respond", r, code, 0)
    /\ UNCHANGED <<isRefreshing, isAuthInvalid, failedQueue, windowAuthInvalid,
                   storedUser, refreshCalls>>

\* api.ts:432-436
RejectInvalid(r, code) ==
    /\ req' = [req EXCEPT ![r] = Reject(@, "authFailed")]
    /\ last' = Task("Respond", r, code, 0)
    /\ UNCHANGED <<isRefreshing, isAuthInvalid, failedQueue, windowAuthInvalid,
                   storedUser, refreshCalls>>

\* api.ts:441-458: a 401 on a request to the refresh endpoint.
RefreshEndpointBranch(r, code) ==
    /\ isAuthInvalid' = TRUE
    /\ storedUser' = FALSE
    /\ windowAuthInvalid' = TRUE
    /\ req' = [req EXCEPT ![r] = Reject(@, "refreshInvalid")]
    /\ last' = Task("Respond", r, code, 1)
    /\ UNCHANGED <<isRefreshing, failedQueue, refreshCalls>>

\* api.ts:460-471: a refresh is running, the request waits in the queue.
Enqueue(r, code) ==
    /\ failedQueue' = Append(failedQueue, r)
    /\ req' = [req EXCEPT ![r] = [@ EXCEPT !.st = "queued",
                                           !.waitsFor = InFlightRefreshes]]
    /\ last' = Task("Respond", r, code, 0)
    /\ UNCHANGED <<isRefreshing, isAuthInvalid, windowAuthInvalid,
                   storedUser, refreshCalls>>

\* api.ts:473-479: mark the request, raise the flag, call the refresh
\* endpoint and wait for it.
StartRefresh(r, code) ==
    /\ isRefreshing' = TRUE
    /\ refreshCalls' = Append(refreshCalls, [trig |-> r, st |-> "inflight"])
    /\ req' = [req EXCEPT ![r] = [@ EXCEPT !.retry = TRUE, !.st = "awaiting",
                                           !.waitsFor = {Len(refreshCalls) + 1}]]
    /\ last' = Task("Respond", r, code, 0)
    /\ UNCHANGED <<isAuthInvalid, failedQueue, windowAuthInvalid, storedUser>>

\* The fall-through wraps the error in the re-authenticate error.
RejectRawWrapped(r, code) ==
    /\ req' = [req EXCEPT ![r] = Reject(@, "authFailed")]
    /\ last' = Task("Respond", r, code, 0)
    /\ UNCHANGED <<isRefreshing, isAuthInvalid, failedQueue, windowAuthInvalid,
                   storedUser, refreshCalls>>

\* api.ts:517: the error goes to the caller as it is.
RejectRaw(r, code) ==
    /\ req' = [req EXCEPT ![r] = Reject(@, "raw" \o code)]
    /\ last' = Task("Respond", r, code, 0)
    /\ UNCHANGED <<isRefreshing, isAuthInvalid, failedQueue, windowAuthInvalid,
                   storedUser, refreshCalls>>

\* The terminal flag is consulted after the 401 branch instead of before it.
HandleErrorLateInvalid(r, code) ==
    IF RetryGuard(r, code)
    THEN IF IsRefreshUrl(r) THEN RefreshEndpointBranch(r, code)
         ELSE IF QueueGuard THEN Enqueue(r, code)
         ELSE StartRefresh(r, code)
    ELSE IF AuthInvalidGuard THEN RejectInvalid(r, code)
    ELSE RejectRaw(r, code)

\* The error handler, api.ts:428-518, up to its first await.
HandleError(r, code) ==
    IF AuthInvalidGuard THEN RejectInvalid(r, code)
    ELSE IF RetryGuard(r, code)
         THEN IF IsRefreshUrl(r) THEN RefreshEndpointBranch(r, code)
              ELSE IF QueueGuard THEN Enqueue(r, code)
              ELSE StartRefresh(r, code)
         ELSE RejectRaw(r, code)

\* The server answers request r.  The first guard bounds the number of
\* refresh calls of a run: no further 401 that would start one arrives.
Respond(r, code) ==
    /\ req[r].st = "inflight"
    /\ ~(/\ Len(refreshCalls) >= MaxRefresh
         /\ ~AuthInvalidGuard /\ RetryGuard(r, code)
         /\ ~IsRefreshUrl(r) /\ ~QueueGuard)
    /\ IF code = "200" THEN HandleSuccess(r) ELSE HandleError(r, code)

\* ----------------- the interceptor's refresh call settles, api.ts:479-513
\* A settled call keeps its place in the sequence and nothing else.
Settled == [trig |-> 0, st |-> "settled"]

\* The success path without the finally block: the flag stays up.
RefreshSucceededKeepsFlag(a, code) ==
    /\ req' = [ProcessQueue(req, failedQueue, "none")
                  EXCEPT ![refreshCalls[a].trig] = Send(@)]
    /\ failedQueue' = <<>>
    /\ refreshCalls' = [refreshCalls EXCEPT ![a] = Settled]
    /\ last' = Task("RefreshRespond", a, code, 0)
    /\ UNCHANGED <<isRefreshing, isAuthInvalid, windowAuthInvalid, storedUser>>

\* api.ts:481-483 (and 511-513): the queue is released, the triggering
\* request is sent again, the flag is lowered.
RefreshSucceeded(a, code) ==
    /\ req' = [ProcessQueue(req, failedQueue, "none")
                  EXCEPT ![refreshCalls[a].trig] = Send(@)]
    /\ failedQueue' = <<>>
    /\ isRefreshing' = FALSE
    /\ refreshCalls' = [refreshCalls EXCEPT ![a] = Settled]
    /\ last' = Task("RefreshRespond", a, code, 0)
    /\ UNCHANGED <<isAuthInvalid, windowAuthInvalid, storedUser>>

\* A catch block that leaves the stored "user" entries where they are.
RefreshFailedKeepsUser(a, code, error, inner) ==
    /\ isAuthInvalid' = TRUE
    /\ req' = [ProcessQueue(req, failedQueue, error)
                  EXCEPT ![refreshCalls[a].trig] = Reject(@, "authFailed")]
    /\ failedQueue' = <<>>
    /\ windowAuthInvalid' = TRUE
    /\ isRefreshing' = FALSE
    /\ refreshCalls' = [refreshCalls EXCEPT ![a] = Settled]
    /\ last' = Task("RefreshRespond", a, code, inner + 1)
    /\ UNCHANGED storedUser

\* api.ts:487-513: the catch block, entered with refreshError = error after
\* the refresh call's own pass through the handler dispatched `inner` events.
RefreshFailed(a, code, error, inner) ==
    /\ isAuthInvalid' = TRUE
    /\ req' = [ProcessQueue(req, failedQueue, error)
                  EXCEPT ![refreshCalls[a].trig] = Reject(@, "authFailed")]
    /\ failedQueue' = <<>>
    /\ storedUser' = FALSE
    /\ windowAuthInvalid' = TRUE
    /\ isRefreshing' = FALSE
    /\ refreshCalls' = [refreshCalls EXCEPT ![a] = Settled]
    /\ last' = Task("RefreshRespond", a, code, inner + 1)

\* Any 2xx answer of the refresh endpoint counts as a success.
RefreshRespondAny2xx(a, code) ==
    /\ a \in InFlightRefreshes
    /\ IF code \in {"ok", "okfalse"} THEN RefreshSucceeded(a, code)
       ELSE RefreshFailed(a, code, RefreshCallError(code),
                          IF RefreshCallBranch(code) THEN 1 ELSE 0)

\* The await of api.ts:479 returns or throws, and the rest of the try / catch
\* / finally runs.
RefreshRespond(a, code) ==
    /\ a \in InFlightRefreshes
    /\ IF code = "ok" THEN RefreshSucceeded(a, code)
       ELSE IF code = "okfalse" THEN RefreshFailed(a, code, "refreshFailed", 0)
       ELSE RefreshFailed(a, code, RefreshCallError(code),
                          IF RefreshCallBranch(code) THEN 1 ELSE 0)

\* ------------------------------------------------------------ specification
\* The shared client and its callers, no AuthProvider mounted.
Next ==
    \/ \E r \in Reqs, k \in {"res", "refresh"} :
          IssueRequest(r, k) /\ UNCHANGED <<sessionVars, handling>>
    \/ \E r \in Reqs : Login(r) /\ UNCHANGED <<sessionVars, handling>>
    \/ \E r \in Reqs : Register(r) /\ UNCHANGED <<sessionVars, handling>>
    \/ ResetAuthState /\ UNCHANGED <<sessionVars, handling>>
    \/ \E r \in Reqs, code \in Codes :
          Respond(r, code) /\ UNCHANGED <<sessionVars, handling>>
    \/ \E a \in Attempts, code \in RefreshCodes :
          RefreshRespond(a, code) /\ UNCHANGED <<sessionVars, handling>>

Spec == Init /\ [][Next]_vars

\* No refresh call of the interceptor is waiting for its answer.
NoRefreshInFlight == InFlightRefreshes = {}

\* Requests made in the runs checked for termination.
NumLiveReq == 2

LiveReqs == {r \in Reqs : r <= NumLiveReq}

\* The shared client with callers that reset the coordinator (login,
\* register, resetAuthState) only while no refresh call is in flight.
LiveNext ==
    \/ \E r \in LiveReqs, k \in {"res", "refresh"} :
          IssueRequest(r, k) /\ UNCHANGED <<sessionVars, handling>>
    \/ \E r \in LiveReqs :
          NoRefreshInFlight /\ Login(r) /\ UNCHANGED <<sessionVars, handling>>
    \/ \E r \in LiveReqs :
          NoRefreshInFlight /\ Register(r)
          /\ UNCHANGED <<sessionVars, handling>>
    \/ NoRefreshInFlight /\ ResetAuthState
       /\ UNCHANGED <<sessionVars, handling>>
    \/ \E r \in LiveReqs, code \in Codes :
          Respond(r, code) /\ UNCHANGED <<sessionVars, handling>>
    \/ \E a \in Attempts, code \in RefreshCodes :
          RefreshRespond(a, code) /\ UNCHANGED <<sessionVars, handling>>

\* Every network call settles: a request on the wire gets its answer, and so
\* does a refresh call of the interceptor.
NetworkSettles ==
    /\ \A r \in LiveReqs :
          WF_vars(\E code \in Codes :
                    Respond(r, code) /\ UNCHANGED <<sessionVars, handling>>)
    /\ \A a \in Attempts :
          WF_vars(\E code \in RefreshCodes :
                    RefreshRespond(a, code)
                    /\ UNCHANGED <<sessionVars, handling>>)

LiveSpec == Init /\ [][LiveNext]_vars /\ NetworkSettles

TypeOK ==
    /\ isRefreshing \in BOOLEAN
    /\ isAuthInvalid \in BOOLEAN
    /\ windowAuthInvalid \in BOOLEAN
    /\ storedUser \in BOOLEAN
    /\ Len(failedQueue) <= NumReq
    /\ \A i \in 1..Len(failedQueue) : failedQueue[i] \in Reqs
    /\ Len(refreshCalls) <= MaxRefresh
    /\ \A r \in Reqs : req[r].sent \in 0..(MaxRefresh + 1)
    /\ last.logouts \in 0..2
    /\ session.user \in {"null", "user"}
    /\ session.isLoading \in BOOLEAN
    /\ session.isAuthenticated \in BOOLEAN
    /\ mounted \in BOOLEAN
    /\ authOps \in [AuthOpNames -> {"idle", "awaiting", "returned", "threw"}]
    /\ handling.ran \in BOOLEAN
    /\ Len(handling.toasts) <= 1

\* ------------------------------------------- the AuthProvider, AuthContext.tsx
\* Every payload counts as a user.
TruthyAlways(payload) == TRUE

\* Truthiness of a SET_USER payload (!!action.payload).
Truthy(payload) == payload # "null"

\* authReducer, AuthContext.tsx:28-49.
authReducer(state, action) ==
    CASE action.type = "SET_LOADING" ->
           [state EXCEPT !.isLoading = action.payload]
      [] action.type = "SET_USER" ->
           [state EXCEPT !.user = action.payload,
                         !.isAuthenticated = Truthy(action.payload),
                         !.isLoading = FALSE]
      [] action.type = "LOGOUT" ->
           [state EXCEPT !.user = "null", !.isAuthenticated = FALSE,
                         !.isLoading = FALSE]
      [] OTHER -> state

SetLoading(b) == [type |-> "SET_LOADING", payload |-> b]
SetUser(u) == [type |-> "SET_USER", payload |-> u]
Logout == [type |-> "LOGOUT"]

\* What the interceptor and the callers' requests do is left out of the
\* provider's specification.
ClientIdle == UNCHANGED <<isRefreshing, isAuthInvalid, failedQueue,
                          windowAuthInvalid, storedUser, req, refreshCalls>>

\* The listener never reacts.
HandleAutoLogoutOff(state) == state

\* handleAutoLogout, AuthContext.tsx:152-157, registered for "auth:logout"
\* by the effect.
HandleAutoLogout(state) ==
    IF mounted THEN authReducer(state, Logout) ELSE state

\* The interceptor fails for good (api.ts:443-453 or 489-505): the flags are
\* set, the stored user is removed and "auth:logout" is dispatched, which
\* runs the provider's listener before dispatchEvent returns.
TerminalFailure ==
    /\ isAuthInvalid' = TRUE
    /\ storedUser' = FALSE
    /\ windowAuthInvalid' = TRUE
    /\ session' = HandleAutoLogout(session)
    /\ last' = Task("TerminalFailure", 0, "none", 1)
    /\ UNCHANGED <<isRefreshing, failedQueue, req, refreshCalls, mounted,
                   authOps>>

\* The identity check is always made.
SkipAuthCheckOff == FALSE

\* AuthContext.tsx:80
SkipAuthCheck == windowAuthInvalid

\* checkAuth up to its await, AuthContext.tsx:75-86 (and 95-97 when it
\* returns early): either it returns logged out without calling authApi.me,
\* or GET /auth/me is on its way.
CheckAuthBegin ==
    /\ authOps["checkAuth"] # "awaiting"
    /\ IF SkipAuthCheck
       THEN /\ session' = authReducer(
                            authReducer(
                              authReducer(session, SetLoading(TRUE)), Logout),
                            SetLoading(FALSE))
            /\ authOps' = [authOps EXCEPT !["checkAuth"] = "returned"]
       ELSE /\ session' = authReducer(session, SetLoading(TRUE))
            /\ authOps' = [authOps EXCEPT !["checkAuth"] = "awaiting"]

\* The effect of AuthContext.tsx:139-165 runs: the check is made and the
\* listener registered.
Mount ==
    /\ ~mounted
    /\ mounted' = TRUE
    /\ CheckAuthBegin
    /\ last' = Task("Mount", 0, "none", 0)
    /\ ClientIdle

\* The cleanup of the effect, AuthContext.tsx:161-164.
Unmount ==
    /\ mounted
    /\ mounted' = FALSE
    /\ last' = Task("Unmount", 0, "none", 0)
    /\ ClientIdle
    /\ UNCHANGED <<session, authOps>>

\* A component calls checkAuth through the context.
CheckAuth ==
    /\ mounted
    /\ CheckAuthBegin
    /\ last' = Task("CheckAuth", 0, "none", 0)
    /\ ClientIdle
    /\ UNCHANGED mounted

\* What an awaited authApi call gives back: an envelope with success = true
\* and the data asked for, one with success = true without it, one with
\* success = false, or a rejection.
Outcomes == {"okData", "okNoData", "fail", "reject"}

\* Every envelope is taken for the user's identity.
MeAcceptedAnyEnvelope(outcome) == outcome # "reject"

\* AuthContext.tsx:87
MeAccepted(outcome) == outcome = "okData"

\* checkAuth after its await, AuthContext.tsx:86-97.
CheckAuthSettle(outcome) ==
    /\ authOps["checkAuth"] = "awaiting"
    /\ session' = authReducer(
                    authReducer(session,
                                IF MeAccepted(outcome) THEN SetUser("user")
                                ELSE Logout),
                    SetLoading(FALSE))
    /\ authOps' = [authOps EXCEPT !["checkAuth"] = "returned"]
    /\ last' = Task("CheckAuthSettle", 0, outcome, 0)
    /\ ClientIdle
    /\ UNCHANGED mounted

\* login / register up to their await: AuthContext.tsx:100-105 and 116-118.
\* Both reach resetAuthState before the POST (api.ts:536, 546).
CredentialBegin(op) ==
    /\ mounted
    /\ authOps[op] # "awaiting"
    /\ ResetFlags
    /\ authOps' = [authOps EXCEPT ![op] = "awaiting"]
    /\ last' = Task(op, 0, "none", 0)
    /\ UNCHANGED <<storedUser, req, refreshCalls, session, mounted>>

\* The envelope is trusted as soon as success is true.
EnvelopeAcceptedOnSuccess(outcome) == outcome \in {"okData", "okNoData"}

\* AuthContext.tsx:106, 119: response.success && response.data?.user
EnvelopeAccepted(outcome) == outcome = "okData"

\* response.data.user of an envelope.
UserOf(outcome) == IF outcome = "okData" THEN "user" ELSE "null"

\* login / register after their await: AuthContext.tsx:106-113, 119-126.
CredentialSettle(op, outcome) ==
    /\ authOps[op] = "awaiting"
    /\ IF outcome # "reject" /\ EnvelopeAccepted(outcome)
       THEN /\ session' = authReducer(session, SetUser(UserOf(outcome)))
            /\ authOps' = [authOps EXCEPT ![op] = "returned"]
       ELSE /\ session' = session
            /\ authOps' = [authOps EXCEPT ![op] = "threw"]
    /\ last' = Task(op \o "Settle", 0, outcome, 0)
    /\ ClientIdle
    /\ UNCHANGED mounted

\* logout up to its await, AuthContext.tsx:129-131.
LogoutBegin ==
    /\ mounted
    /\ authOps["logout"] # "awaiting"
    /\ authOps' = [authOps EXCEPT !["logout"] = "awaiting"]
    /\ last' = Task("logout", 0, "none", 0)
    /\ ClientIdle
    /\ UNCHANGED <<session, mounted>>

\* A logout that hands a rejection of POST /auth/logout on to its caller and
\* leaves the session as it is.
LogoutSettleRethrows(outcome) ==
    /\ authOps["logout"] = "awaiting"
    /\ IF outcome = "reject"
       THEN /\ session' = session
            /\ authOps' = [authOps EXCEPT !["logout"] = "threw"]
       ELSE /\ session' = authReducer(session, Logout)
            /\ authOps' = [authOps EXCEPT !["logout"] = "returned"]
    /\ last' = Task("logoutSettle", 0, outcome, 0)
    /\ ClientIdle
    /\ UNCHANGED mounted

\* logout after its await, AuthContext.tsx:131-136: the catch block logs the
\* rejection, the finally block dispatches LOGOUT.
LogoutSettle(outcome) ==
    /\ authOps["logout"] = "awaiting"
    /\ session' = authReducer(session, Logout)
    /\ authOps' = [authOps EXCEPT !["logout"] = "returned"]
    /\ last' = Task("logoutSettle", 0, outcome, 0)
    /\ ClientIdle
    /\ UNCHANGED mounted

\* The AuthProvider, with the shared client seen from outside: its calls
\* settle one way or another, and the interceptor may fail for good.
SessionNext ==
    \/ Mount /\ UNCHANGED handling
    \/ Unmount /\ UNCHANGED handling
    \/ CheckAuth /\ UNCHANGED handling
    \/ \E o \in Outcomes : CheckAuthSettle(o) /\ UNCHANGED handling
    \/ \E op \in {"login", "register"} :
          CredentialBegin(op) /\ UNCHANGED handling
    \/ \E op \in {"login", "register"}, o \in Outcomes :
          CredentialSettle(op, o) /\ UNCHANGED handling
    \/ LogoutBegin /\ UNCHANGED handling
    \/ \E o \in Outcomes : LogoutSettle(o) /\ UNCHANGED handling
    \/ TerminalFailure /\ UNCHANGED handling

SessionSpec == Init /\ [][SessionNext]_vars

\* ------------------------------------ the reducer alone, AuthContext.tsx:28
\* Length of the sequences of actions tried.
MaxDispatch == 20

\* dispatch(action): the reducer gives the next state.  last.id counts the
\* actions dispatched so far.
Dispatch(action) ==
    /\ last.id < MaxDispatch
    /\ session' = authReducer(session, action)
    /\ last' = Task("Dispatch", last.id + 1, action.type, 0)
    /\ ClientIdle
    /\ UNCHANGED <<mounted, authOps, handling>>

\* The actions of AuthAction (AuthContext.tsx:17-20); SET_USER carries a user
\* or null, as AuthState.user does.
ReducerNext ==
    \/ \E b \in BOOLEAN : Dispatch(SetLoading(b))
    \/ \E u \in {"user", "null"} : Dispatch(SetUser(u))
    \/ Dispatch(Logout)

\* Any sequence of actions from initialState.
ReducerSpec == Init /\ [][ReducerNext]_vars

\* ------------------------------------------ handleApiError, errorHandler.ts
\* error.response.status values: around each threshold the function tests.
Statuses == {400, 401, 403, 404, 499, 500, 503}

\* error.code as axios sets it.
ErrorCodes == {"ERR_NETWORK", "ERR_BAD_REQUEST", "undefined"}

\* error.response.data?.message: absent, the empty string, or a text.
Messages == {"undefined", "", "Category already exists"}

\* The operation argument: left out, or given.
Operations == {"undefined", "save expense"}

\* The errors handleApiError is called with.
ApiErrors ==
    {ApiError(c, FALSE, 0, "undefined") : c \in ErrorCodes}
    \cup {ApiError(c, TRUE, st, m) :
            c \in ErrorCodes, st \in Statuses, m \in Messages}

\* error.response?.status === n
StatusIs(error, n) == error.hasResponse /\ error.status = n

\* error.response?.status >= n (false when there is no response)
StatusAtLeast(error, n) == error.hasResponse /\ error.status >= n

\* Truthiness of error.response?.data?.message
HasMessage(error) ==
    error.hasResponse /\ error.message \notin {"undefined", ""}

\* The default of the operation parameter, errorHandler.ts:34.
OperationOrDefault(operation) ==
    IF operation = "undefined" THEN "operation" ELSE operation

NetworkToast == "Unable to connect to server. Please check your connection."
ForbiddenToast == "You don't have permission to perform this action."
NotFoundToast == "Resource not found."
ServerToast == "Server error. Please try again later."
FailedToast(operation) == "Failed to " \o operation \o ". Please try again."

\* The 401 test comes first.
handleApiErrorUnauthorizedFirst(error, operation) ==
    IF StatusIs(error, 401) THEN <<>>
    ELSE IF error.code = "ERR_NETWORK" THEN <<NetworkToast>>
    ELSE IF StatusIs(error, 403) THEN <<ForbiddenToast>>
    ELSE IF StatusIs(error, 404) THEN <<NotFoundToast>>
    ELSE IF StatusAtLeast(error, 500) THEN <<ServerToast>>
    ELSE IF HasMessage(error) THEN <<error.message>>
    ELSE <<FailedToast(OperationOrDefault(operation))>>

\* handleApiError, errorHandler.ts:34-53: the toasts it shows, in order.
handleApiError(error, operation) ==
    IF error.code = "ERR_NETWORK" THEN <<NetworkToast>>
    ELSE IF StatusIs(error, 401) THEN <<>>
    ELSE IF StatusIs(error, 403) THEN <<ForbiddenToast>>
    ELSE IF StatusIs(error, 404) THEN <<NotFoundToast>>
    ELSE IF StatusAtLeast(error, 500) THEN <<ServerToast>>
    ELSE IF HasMessage(error) THEN <<error.message>>
    ELSE <<FailedToast(OperationOrDefault(operation))>>

\* A catch block calls handleApiError with the error it caught.
HandleApiErrorInit ==
    /\ handling \in {Call(e, o) : e \in ApiErrors, o \in Operations}
    /\ session = initialState
    /\ mounted = FALSE
    /\ authOps = [o \in AuthOpNames |-> "idle"]
    /\ isRefreshing = FALSE
    /\ isAuthInvalid = FALSE
    /\ failedQueue = <<>>
    /\ windowAuthInvalid = FALSE
    /\ storedUser = TRUE
    /\ req = [r \in Reqs |-> NewReq]
    /\ refreshCalls = <<>>
    /\ last = Task("init", 0, "none", 0)

\* The call runs to its end.
HandleApiError ==
    /\ ~handling.ran
    /\ handling' = [handling EXCEPT
                      !.ran = TRUE,
                      !.toasts = handleApiError(handling.error,
                                                handling.operation)]
    /\ last' = Task("handleApiError", 0, "none", 0)
    /\ ClientIdle
    /\ UNCHANGED sessionVars

HandleApiErrorNext == HandleApiError

HandleApiErrorSpec == HandleApiErrorInit /\ [][HandleApiErrorNext]_vars

\* ------------------------------------------------------------------ claims
\* The step just taken was the arrival of code for request r.
Responded(r, code) ==
    last'.op = "Respond" /\ last'.id = r /\ last'.code = code

\* Request r waits for a refresh call to settle.
Pending(r) == req[r].st \in {"awaiting", "queued"}

\* C1: every 401 that reaches a request not yet retried and not addressed to
\* the refresh endpoint, while isAuthInvalid is false, leaves the request
\* waiting (neither re-sent, resolved nor rejected); it issues one POST
\* /auth/refresh when isRefreshing is false and none when it is true; and a
\* waiting request only moves on in the step in which a refresh call that
\* was running when it started to wait settles.
C1_SingleRefreshPerBurst ==
    [][\A r \in Reqs :
         /\ (/\ Responded(r, "401")
             /\ ~req[r].retry /\ req[r].kind # "refresh" /\ ~isAuthInvalid)
            => /\ req'[r].st \in {"awaiting", "queued"}
               /\ req'[r].sent = req[r].sent
               /\ Len(refreshCalls') =
                    Len(refreshCalls) + (IF isRefreshing THEN 0 ELSE 1)
         /\ (Pending(r) /\ req'[r] # req[r])
            => /\ last'.op = "RefreshRespond"
               /\ last'.id \in req[r].waitsFor]_vars

\* Three requests got a 401 in a row: one refresh call was issued, it is
\* still running, and all three wait for it.
C1_Witness ==
    /\ Len(refreshCalls) = 1
    /\ InFlightRefreshes = {1}
    /\ Cardinality({r \in Reqs : req[r].st = "awaiting"}) = 1
    /\ Cardinality({r \in Reqs : req[r].st = "queued"}) = 2
    /\ Len(failedQueue) = 2

\* C2: at most one POST /auth/refresh issued by the response interceptor is
\* in flight in every reachable state.
C2_AtMostOneRefreshInFlight == Cardinality(InFlightRefreshes) <= 1

\* C3: when the interceptor's own refresh call receives a 401, isAuthInvalid
\* ends true, every queued request is rejected and "auth:logout" is
\* dispatched exactly once.
C3_RefreshUnauthorizedLogsOutOnce ==
    [][(last'.op = "RefreshRespond" /\ last'.code = "401")
       => /\ isAuthInvalid'
          /\ \A i \in 1..Len(failedQueue) :
               req'[failedQueue[i]].st = "rejected"
          /\ last'.logouts = 1]_vars

C6_ResetBeforeCredentialCall ==
    (last.op = "Issue" /\ last.code \in {"login", "register"})
    => /\ req[last.id].st = "inflight" /\ req[last.id].sent = 1
       /\ ~isRefreshing /\ ~isAuthInvalid /\ ~windowAuthInvalid
       /\ failedQueue = <<>>

\* login was called while a refresh call was running with a request in the
\* queue: the flag is down and the queue empty when its POST goes out.
C6_Witness ==
    /\ last.op = "Issue" /\ last.code = "login"
    /\ InFlightRefreshes # {}
    /\ \E r \in Reqs : req[r].st = "queued"

\* C7: a request whose config carries _retry = true and that receives a 401
\* is rejected on the spot: it is not sent again, not queued, and no refresh
\* call is issued.
C7_RetriedRequestNotRetriedAgain ==
    [][\A r \in Reqs :
         (req[r].retry /\ Responded(r, "401"))
         => /\ req'[r].st = "rejected"
            /\ req'[r].result \in {"raw401", "authFailed"}
            /\ Len(refreshCalls') = Len(refreshCalls)
            /\ failedQueue' = failedQueue]_vars

\* The request that started the only refresh call was sent again, got a
\* second 401 and was rejected with it.
C7_Witness ==
    /\ last.op = "Respond" /\ last.code = "401"
    /\ req[last.id].result = "raw401"
    /\ Len(refreshCalls) = 1 /\ InFlightRefreshes = {}

\* C8 (as claimed): no caller ever sees a rejection that is a raw 401
\* response error.
C8_NoRaw401 == \A r \in Reqs : req[r].result # "raw401"

\* C8 (amended): a 401 on a request not yet flagged _retry never reaches the
\* caller as a raw 401 (the request waits for the refresh or is rejected
\* with a re-authenticate error); the only raw 401 a caller sees is the
\* second 401 of a request already flagged _retry.
C8_Raw401OnlyAfterRetry ==
    [][\A r \in Reqs :
         /\ (req'[r].result = "raw401" /\ req[r].result # "raw401")
            => req[r].retry /\ Responded(r, "401")
         /\ (Responded(r, "401") /\ ~req[r].retry)
            => \/ req'[r].st \in {"awaiting", "queued"}
               \/ /\ req'[r].st = "rejected"
                  /\ req'[r].result \in {"authFailed", "refreshInvalid"}]_vars

\* One caller saw a raw 401 (second 401 of a retried request) while the
\* first 401 of another request is being absorbed in the queue.
C8_Witness ==
    /\ \E r \in Reqs : req[r].result = "raw401"
    /\ \E r \in Reqs : req[r].st = "queued" /\ InQueue(failedQueue, r)

\* C9: while isAuthInvalid is true no step issues a POST /auth/refresh.
C9_NoRefreshWhileInvalid ==
    [][isAuthInvalid => Len(refreshCalls') = Len(refreshCalls)]_vars

\* A first 401 arrived while isAuthInvalid was true, with refresh calls still
\* to spare, and was rejected without a refresh call.
C9_Witness ==
    /\ isAuthInvalid
    /\ last.op = "Respond" /\ last.code = "401"
    /\ req[last.id].result = "authFailed"
    /\ Len(refreshCalls) < MaxRefresh
    /\ InFlightRefreshes = {}

\* C10: queued continuations are released only in the step in which a
\* refresh call that was running when they were queued settles, and that
\* step gives every continuation in the queue the outcome of the refresh
\* (all sent again after a success, all rejected after a failure) and
\* empties the queue.
C10_QueueSharesRefreshOutcome ==
    [][/\ \A r \in Reqs :
            (req[r].st = "queued" /\ req'[r] # req[r])
            => last'.op = "RefreshRespond" /\ last'.id \in req[r].waitsFor
       /\ last'.op = "RefreshRespond"
          => /\ failedQueue' = <<>>
             /\ \A i \in 1..Len(failedQueue) :
                  IF last'.code = "ok"
                  THEN /\ req'[failedQueue[i]].st = "inflight"
                       /\ req'[failedQueue[i]].sent = req[failedQueue[i]].sent + 1
                  ELSE req'[failedQueue[i]].st = "rejected"]_vars

\* A refresh call succeeded with two continuations in the queue: both
\* requests are on the wire for the second time.
C10_Witness ==
    /\ last.op = "RefreshRespond" /\ last.code = "ok"
    /\ Cardinality({r \in Reqs : /\ req[r].st = "inflight" /\ req[r].sent = 2
                                 /\ ~req[r].retry}) = 2

\* C11: once a refresh call has settled, no continuation queued while it
\* was running is still waiting.
C11_NoContinuationLeftBehind ==
    \A r \in Reqs :
        req[r].st = "queued" => req[r].waitsFor \subseteq InFlightRefreshes

\* C12: when the refresh succeeds, the request that started it and every
\* queued request go on the wire again, and a request answered with a 2xx
\* is resolved with that answer.
C12_BothRetriedAndResolved ==
    [][/\ (last'.op = "RefreshRespond" /\ last'.code = "ok")
          => /\ req'[refreshCalls[last'.id].trig].st = "inflight"
             /\ req'[refreshCalls[last'.id].trig].sent =
                  req[refreshCalls[last'.id].trig].sent + 1
             /\ \A i \in 1..Len(failedQueue) :
                  /\ req'[failedQueue[i]].st = "inflight"
                  /\ req'[failedQueue[i]].sent = req[failedQueue[i]].sent + 1
       /\ \A r \in Reqs :
            Responded(r, "200")
            => req'[r].st = "resolved" /\ req'[r].result = "ok"]_vars

\* Two resource requests got a 401 and one refresh call succeeded: the one
\* that started it was sent again and has just been resolved by a 2xx, the
\* queued one is on the wire for the second time, nobody was rejected.
C12_Witness ==
    /\ Len(refreshCalls) = 1 /\ InFlightRefreshes = {}
    /\ last.op = "Respond" /\ last.code = "200"
    /\ req[last.id].st = "resolved"
    /\ \E r \in Reqs : /\ req[r].kind = "res" /\ req[r].st = "inflight"
                       /\ req[r].sent = 2 /\ ~req[r].retry
    /\ \A r \in Reqs : req[r].st # "rejected"
    /\ Cardinality({r \in Reqs : req[r].st = "new"}) = NumReq - 2

\* C13 (as claimed): a failure other than the 401 of a request not yet
\* retried is rejected with the error it came with, whatever the state of
\* the coordinator.
C13_FailuresPropagateUnchanged ==
    [][\A r \in Reqs :
         (/\ last'.op = "Respond" /\ last'.id = r /\ last'.code # "200"
          /\ ~(last'.code = "401" /\ ~req[r].retry))
         => /\ req'[r].st = "rejected"
            /\ req'[r].result = "raw" \o last'.code]_vars

\* C13 (amended): such a failure is rejected with the error it came with
\* while isAuthInvalid is false, and with the re-authenticate error while
\* isAuthInvalid is true; in both cases the coordinator's flags and queue
\* are left alone.
C13_FailuresPropagateUnlessInvalid ==
    [][\A r \in Reqs :
         (/\ last'.op = "Respond" /\ last'.id = r /\ last'.code # "200"
          /\ ~(last'.code = "401" /\ ~req[r].retry))
         => /\ req'[r].st = "rejected"
            /\ req'[r].result =
                 (IF isAuthInvalid THEN "authFailed" ELSE "raw" \o last'.code)
            /\ UNCHANGED <<isRefreshing, isAuthInvalid, failedQueue,
                           refreshCalls>>]_vars

\* A failure that is not a 401 arrived while a refresh call was running and
\* reached the caller as it came.
C13_Witness ==
    /\ last.op = "Respond" /\ last.code = "500"
    /\ req[last.id].result = "raw500"
    /\ isRefreshing /\ InFlightRefreshes # {}

\* C14: when the refresh call fails, the request that started it is rejected
\* with the re-authenticate error, the queued requests are rejected, none of
\* them goes on the wire again, the stored "user" entries are gone and
\* "auth:logout" has been dispatched.
C14_RefreshFailureIsTerminal ==
    [][(last'.op = "RefreshRespond" /\ last'.code # "ok")
       => /\ req'[refreshCalls[last'.id].trig].st = "rejected"
          /\ req'[refreshCalls[last'.id].trig].result = "authFailed"
          /\ \A i \in 1..Len(failedQueue) :
               req'[failedQueue[i]].st = "rejected"
          /\ \A r \in Reqs : req'[r].st = "inflight" => req'[r] = req[r]
          /\ ~storedUser'
          /\ last'.logouts >= 1]_vars

\* A refresh call failed with two requests in the queue: three requests are
\* rejected, the one that started the refresh with the re-authenticate error.
C14_Witness ==
    /\ last.op = "RefreshRespond" /\ last.code = "500"
    /\ ~storedUser
    /\ Cardinality({r \in Reqs : req[r].result = "raw500"}) = 2
    /\ Cardinality({r \in Reqs : req[r].result = "authFailed"}) = 1

\* C15: a 401 on a request to the refresh endpoint, the interceptor's own
\* refresh call included, leaves isAuthInvalid true and the request rejected;
\* it starts no refresh call and is neither queued nor sent again.
C15_RefreshEndpointNeverRetried ==
    [][/\ \A r \in Reqs :
            (req[r].kind = "refresh" /\ Responded(r, "401"))
            => /\ isAuthInvalid'
               /\ req'[r].st = "rejected"
               /\ Len(refreshCalls') = Len(refreshCalls)
               /\ failedQueue' = failedQueue
       /\ (last'.op = "RefreshRespond" /\ last'.code = "401")
          => /\ isAuthInvalid'
             /\ Len(refreshCalls') = Len(refreshCalls)
             /\ InFlightRefreshes' = InFlightRefreshes \ {last'.id}]_vars

\* authApi.refresh got a 401 while the interceptor's refresh call was running
\* with a request in the queue.
C15_Witness ==
    /\ last.op = "Respond" /\ last.code = "401" /\ last.logouts = 1
    /\ req[last.id].result = "refreshInvalid"
    /\ isAuthInvalid /\ isRefreshing
    /\ InFlightRefreshes # {} /\ Len(failedQueue) = 1

\* C17: a refresh call answered by a 2xx that is not a success is a failed
\* refresh: isAuthInvalid and window.authInvalid end true, the queue is
\* rejected, "auth:logout" is dispatched, and the request that started the
\* refresh is rejected with the re-authenticate error without going on the
\* wire again.
C17_UnsuccessfulEnvelopeIsFailure ==
    [][(last'.op = "RefreshRespond" /\ last'.code = "okfalse")
       => /\ isAuthInvalid' /\ windowAuthInvalid' /\ ~isRefreshing'
          /\ req'[refreshCalls[last'.id].trig] =
               Reject(req[refreshCalls[last'.id].trig], "authFailed")
          /\ \A i \in 1..Len(failedQueue) :
               req'[failedQueue[i]] = Reject(req[failedQueue[i]], "refreshFailed")
          /\ failedQueue' = <<>>
          /\ last'.logouts = 1]_vars

\* The refresh endpoint answered 2xx with success = false while a request
\* was queued: that request is rejected with "Refresh failed".
C17_Witness ==
    /\ last.op = "RefreshRespond" /\ last.code = "okfalse"
    /\ isAuthInvalid
    /\ \E r \in Reqs : req[r].result = "refreshFailed"
    /\ \E r \in Reqs : req[r].result = "authFailed"

\* C18: a resource operation (anything but login and register) leaves
\* isRefreshing, isAuthInvalid and the queue as they are when it is called;
\* they change only in a step of the response interceptor, of
\* resetAuthState, or of login / register.
C18_OnlyInterceptorWritesFlags ==
    [][(last'.op = "Issue" /\ last'.code \in {"res", "refresh"})
       => UNCHANGED <<isRefreshing, isAuthInvalid, failedQueue>>]_vars

\* authApi.refresh was called while a refresh call was running with a
\* request in the queue: flag and queue are untouched.
C18_Witness ==
    /\ last.op = "Issue" /\ last.code = "refresh"
    /\ isRefreshing /\ Len(failedQueue) = 1

\* C16: when the interceptor fails for good while the provider is mounted,
\* the session is logged out: user = null and isAuthenticated = false.
C16_TerminalFailureClearsSession ==
    [][(last'.op = "TerminalFailure" /\ mounted)
       => /\ isAuthInvalid'
          /\ session'.user = "null" /\ ~session'.isAuthenticated]_vars

\* A login had made the session authenticated; the interceptor then failed
\* for good and the session is logged out.
C16_Witness ==
    /\ last.op = "TerminalFailure" /\ mounted /\ isAuthInvalid
    /\ authOps["login"] = "returned"
    /\ session = [user |-> "null", isLoading |-> FALSE,
                  isAuthenticated |-> FALSE]

\* C19: checkAuth started while window.authInvalid is true does not call
\* authApi.me and returns with user = null, isAuthenticated = false and
\* isLoading = false.
C19_CheckAuthSkipsWhenInvalid ==
    [][(last'.op \in {"Mount", "CheckAuth"} /\ windowAuthInvalid)
       => /\ authOps'["checkAuth"] = "returned"
          /\ session' = [user |-> "null", isLoading |-> FALSE,
                         isAuthenticated |-> FALSE]]_vars

\* checkAuth was called with the flag set after a login had succeeded: it
\* returned at once and the session is logged out.
C19_Witness ==
    /\ last.op = "CheckAuth" /\ windowAuthInvalid
    /\ authOps["checkAuth"] = "returned"
    /\ authOps["login"] = "returned"
    /\ ~session.isAuthenticated /\ ~session.isLoading

\* C20: login and register make the session authenticated only from an
\* envelope with success = true and data.user; on any other envelope, and on
\* a rejection, they throw and leave the session as it is.
C20_SetUserOnlyOnSuccess ==
    [][(last'.op \in {"loginSettle", "registerSettle"})
       => IF last'.code = "okData"
          THEN /\ session'.user = "user" /\ session'.isAuthenticated
               /\ ~session'.isLoading
          ELSE /\ session' = session
               /\ \E op \in {"login", "register"} :
                    authOps[op] = "awaiting" /\ authOps'[op] = "threw"]_vars

\* register got an envelope with success = true and no user while the
\* session was still loading: it threw and the session is not authenticated.
C20_Witness ==
    /\ last.op = "registerSettle" /\ last.code = "okNoData"
    /\ authOps["register"] = "threw"
    /\ session.isLoading /\ ~session.isAuthenticated

\* The rules of C21 in their order: the condition and the notification.
C21_Rules(error, operation) ==
    << <<error.code = "ERR_NETWORK", NetworkToast>>,
       <<error.hasResponse /\ error.status = 403, ForbiddenToast>>,
       <<error.hasResponse /\ error.status = 404, NotFoundToast>>,
       <<error.hasResponse /\ error.status >= 500, ServerToast>>,
       <<error.hasResponse /\ error.message = "Category already exists",
         error.message>>,
       <<TRUE, IF operation = "save expense"
               THEN "Failed to save expense. Please try again."
               ELSE "Failed to operation. Please try again.">> >>

\* The notification of the first rule that matches.
C21_FirstMatch(error, operation) ==
    LET rules == C21_Rules(error, operation)
        i == CHOOSE k \in 1..Len(rules) :
               rules[k][1] /\ \A j \in 1..(k - 1) : ~rules[j][1]
    IN rules[i][2]

\* C21: handleApiError shows nothing for a 401 response whose code is not
\* ERR_NETWORK, and for every other error exactly one notification, that of
\* the first rule that matches among: network error, 403, 404, status >= 500,
\* envelope message, generic operation-failed message.
C21_OneNotificationExcept401 ==
    handling.ran =>
        LET error == handling.error IN
        IF error.hasResponse /\ error.status = 401
           /\ error.code # "ERR_NETWORK"
        THEN handling.toasts = <<>>
        ELSE handling.toasts = <<C21_FirstMatch(error, handling.operation)>>

\* handleApiError ran on a 401 response that carries a message and showed
\* nothing.
C21_Witness ==
    /\ handling.ran
    /\ handling.error = ApiError("ERR_BAD_REQUEST", TRUE, 401,
                                 "Category already exists")
    /\ handling.toasts = <<>>

\* C22: a request is re-sent by the interceptor at most once over its
\* lifetime (it goes on the wire at most twice), whether it started the
\* refresh or waited in the queue.
C22_ResentAtMostOnce == \A r \in Reqs : req[r].sent <= 2

\* The task that ran last was resetAuthState, on its own or as the first
\* statement of login / register: every refresh call still in flight was
\* started before that reset.
C23_ResetJustRan ==
    \/ last.op = "Reset"
    \/ last.op = "Issue" /\ last.code \in {"login", "register"}

\* C23: a refresh call started before resetAuthState ran and failing after it
\* does not change the coordinator: isAuthInvalid stays false and no
\* "auth:logout" is dispatched.  Stated for the failure that arrives right
\* after the reset.
C23_StaleRefreshFailureIgnored ==
    [][(C23_ResetJustRan /\ last'.op = "RefreshRespond" /\ last'.code # "ok")
       => /\ ~isAuthInvalid' /\ ~windowAuthInvalid'
          /\ last'.logouts = 0]_vars

\* C24: a 401 answer to POST /auth/login or /auth/register is handled like
\* that of any other request that is not the refresh endpoint: with the
\* coordinator idle it starts a refresh call for which the login / register
\* call waits, and when that refresh call fails the login / register call is
\* rejected with the re-authenticate error, isAuthInvalid is true and
\* "auth:logout" is dispatched.
C24_CredentialsUnauthorizedRefreshes ==
    [][/\ \A r \in Reqs :
            (/\ req[r].kind = "credentials" /\ Responded(r, "401")
             /\ ~isAuthInvalid /\ ~isRefreshing /\ ~req[r].retry)
            => /\ refreshCalls' = Append(refreshCalls,
                                         [trig |-> r, st |-> "inflight"])
               /\ isRefreshing' /\ req'[r].st = "awaiting"
               /\ req'[r].sent = req[r].sent
       /\ (/\ last'.op = "RefreshRespond" /\ last'.code # "ok"
           /\ req[refreshCalls[last'.id].trig].kind = "credentials")
          => /\ req'[refreshCalls[last'.id].trig].st = "rejected"
             /\ req'[refreshCalls[last'.id].trig].result = "authFailed"
             /\ isAuthInvalid' /\ windowAuthInvalid'
             /\ last'.logouts >= 1]_vars

\* A login / register call got a 401 and waits for the refresh call it
\* started.
C24_Witness ==
    \E a \in InFlightRefreshes :
        /\ req[refreshCalls[a].trig].kind = "credentials"
        /\ req[refreshCalls[a].trig].st = "awaiting"
        /\ req[refreshCalls[a].trig].retry
        /\ isRefreshing /\ ~isAuthInvalid
        /\ last.op = "Respond" /\ last.code = "401"

\* C25: in every state the reducer reaches from initialState by SET_LOADING,
\* SET_USER and LOGOUT actions, isAuthenticated is true exactly when user is
\* not null.
C25_AuthenticatedIffUser ==
    session.isAuthenticated <=> session.user # "null"

\* A user was set and SET_LOADING true dispatched afterwards: authenticated
\* while loading.
C25_Witness ==
    /\ last.op = "Dispatch" /\ last.code = "SET_LOADING" /\ last.id >= 3
    /\ session = [user |-> "user", isLoading |-> TRUE,
                  isAuthenticated |-> TRUE]

\* C26: between two tasks (no interceptor callback is running), the queue
\* of failed requests is non-empty only while isRefreshing is true.
C26_QueueOnlyWhileRefreshing == failedQueue # <<>> => isRefreshing

\* A request waits in the queue behind a refresh call that was started after
\* a reset, while the refresh call from before the reset is still in flight.
C26_Witness ==
    /\ Len(failedQueue) >= 1 /\ isRefreshing
    /\ Cardinality(InFlightRefreshes) = 2
    /\ req[failedQueue[1]].st = "queued"

\* C30: between two tasks (no interceptor callback and no resetAuthState is
\* running), window.authInvalid equals the module's isAuthInvalid.
C30_WindowFlagMirrorsModuleFlag == windowAuthInvalid = isAuthInvalid

\* A terminal failure raised both flags and removed the stored user; a login
\* or register then lowered both.
C30_Witness ==
    /\ ~storedUser /\ ~isAuthInvalid /\ ~windowAuthInvalid
    /\ last.op = "Issue" /\ last.code \in {"login", "register"}

\* C28: AuthProvider.logout ends with the session logged out (user = null,
\* isAuthenticated = false, isLoading = false) whether POST /auth/logout
\* succeeds or is rejected, and it returns to its caller without rejecting.
C28_LogoutAlwaysLogsOut ==
    [][last'.op = "logoutSettle"
       => /\ session' = [user |-> "null", isLoading |-> FALSE,
                         isAuthenticated |-> FALSE]
          /\ authOps["logout"] = "awaiting"
          /\ authOps'["logout"] = "returned"]_vars

\* A login had succeeded; logout was called, POST /auth/logout was rejected,
\* and the session is logged out.
C28_Witness ==
    /\ last.op = "logoutSettle" /\ last.code = "reject"
    /\ authOps["login"] = "returned" /\ authOps["logout"] = "returned"
    /\ session = [user |-> "null", isLoading |-> FALSE,
                  isAuthenticated |-> FALSE]

\* The step completes a run of checkAuth: GET /auth/me settled, or the run
\* returned before calling it.
C29_CheckAuthCompletes ==
    \/ last'.op = "CheckAuthSettle"
    \/ /\ last'.op \in {"Mount", "CheckAuth"}
       /\ authOps'["checkAuth"] = "returned"

\* C29: a completed run of checkAuth leaves isLoading = false whatever GET
\* /auth/me gave, and leaves isAuthenticated = true only when the envelope
\* had success = true with data.
C29_CheckAuthEndsLoading ==
    [][C29_CheckAuthCompletes
       => /\ ~session'.isLoading
          /\ authOps'["checkAuth"] = "returned"
          /\ session'.isAuthenticated
             => last'.op = "CheckAuthSettle" /\ last'.code = "okData"]_vars

\* A login had succeeded; GET /auth/me of a later checkAuth gave an envelope
\* with success = false, and the session is logged out and not loading.
C29_Witness ==
    /\ last.op = "CheckAuthSettle" /\ last.code = "fail"
    /\ authOps["login"] = "returned" /\ authOps["checkAuth"] = "returned"
    /\ ~session.isLoading /\ ~session.isAuthenticated

\* C27: if every network call settles and resetAuthState does not run while
\* a refresh call is in flight, every request made through the shared client
\* is eventually resolved or rejected, and isRefreshing returns to false
\* after each refresh attempt.
C27_EveryRequestSettles ==
    /\ \A r \in LiveReqs :
          (req[r].st # "new") ~> (req[r].st \in {"resolved", "rejected"})
    /\ isRefreshing ~> ~isRefreshing

\* Every request was made and has settled, two refresh calls were made and
\* have settled, and the flag is down.
C27_Witness ==
    /\ \A r \in LiveReqs : req[r].st \in {"resolved", "rejected"}
    /\ Len(refreshCalls) = 2 /\ NoRefreshInFlight
    /\ ~isRefreshing
    /\ \E r \in Reqs : req[r].st = "resolved"

====
